---- MODULE Spec2Model ----
(***************************************************************************)
(* Model of spiffe-jwt (src/main.go).  The source file holds two program   *)
(* variants of the same sidecar:                                           *)
(*   "selfdel" - lines 1..173: on failure it deletes its own pod through   *)
(*               the orchestrator API and pauses 60 s (deleteOwnPod);      *)
(*   "direct"  - lines 175..356: on failure it exits through logrus.Fatal, *)
(*               has a one-shot mode, a fetch timeout and a clamped        *)
(*               refresh interval.                                         *)
(* Durations and instants are integers counted in ticks; Second is the     *)
(* number of ticks in time.Second.  Go's integer division and its          *)
(* float-to-Duration conversion both truncate toward zero (TruncDiv).      *)
(***************************************************************************)
EXTENDS Integers, FiniteSets, Sequences, TLC

(* ------------------------------ constants ------------------------------ *)

\* time.Second, in ticks
Second == 2
\* context.WithTimeout(..., 10*time.Second) of the direct-exit fetchJWTSVID
FetchTimeoutSeconds == 10
\* time.Sleep(60 * time.Second) of deleteOwnPod
PauseSeconds == 60

FetchTimeout == FetchTimeoutSeconds * Second
PauseTicks == PauseSeconds * Second

(* -------------------------------- bounds ------------------------------- *)

\* number of fetch attempts one run of the loop model makes at most
MaxCycles == 3
\* longest lifetime (ticks) of a credential the agent issues in the loop model
MaxLifetime == 4
\* how far in the past (ticks) the expiry of an issued credential may lie
MaxSkew == 0
\* largest override of the loop model (ticks in "direct", seconds in "selfdel")
MaxOverride == 1
\* longest fetch latency (ticks) short of the timeout in the loop model
MaxFetchTicks == 2
\* number of /started requests one run of the loop model answers at most
MaxProbes == 1
\* the scheduler model: largest remaining lifetime and largest override, in seconds,
\* and how long ago, in seconds, a credential may have expired
MaxRemainingS == 100
MaxOverrideS == 100
MaxExpiredS == 10

(* ------------------------------- helpers ------------------------------- *)

Min(a, b) == IF a < b THEN a ELSE b
Max(a, b) == IF a > b THEN a ELSE b

\* Go's integer division: truncation toward zero
TruncDiv(a, b) == IF a >= 0 THEN a \div b ELSE -((-a) \div b)

Variants == {"direct", "selfdel"}

\* A credential (*jwtsvid.SVID) is [tok, expiry, life, validated]: the token (numbered
\* by the fetch that returned it), its Expiry, the lifetime it had left when returned,
\* and whether fetchJWTSVID passed it to jwtsvid.ParseAndValidate.
\* no credential (a nil *jwtsvid.SVID, or a file that does not exist)
Nil == [tok |-> 0, expiry |-> 0, life |-> 0, validated |-> FALSE]
\* a file that os.WriteFile has truncated and not (completely) written
Truncated == [tok |-> -1, expiry |-> 0, life |-> 0, validated |-> FALSE]
\* history only: no fetch has failed yet
NoSnapshot == [tok |-> -2, expiry |-> 0, life |-> 0, validated |-> FALSE]

VARIABLES
    variant,      \* which of the two programs of src/main.go runs
    daemon,       \* SpiffeJWT.DaemonMode (the self-deletion variant has no one-shot mode)
    legacyTimer,  \* build: pre-1.23 timer channels (a stale tick survives Reset)
    override,     \* SpiffeJWT.RefreshIntervalOverride (ticks in "direct", seconds in "selfdel")
    now,          \* the clock
    pc,           \* position of main / the run goroutine
    ret,          \* where run continues when deleteOwnPod returns
    cycle,        \* number of fetch attempts started
    jwt,          \* the credential held by run (Nil: none)
    file,         \* content of the credential file
    started,      \* the readiness flag (Started / started)
    remain,       \* time.Until(svid.Expiry) of the last interval computation
    intv,         \* the interval last computed by getRefreshInterval
    tickerAt,     \* instant of the ticker's next tick
    tickerPeriod, \* the ticker's period (0: no ticker yet)
    tickC,        \* a tick is waiting in ticker.C
    server,       \* the health server: "off", "up"
    probes,       \* number of /started requests answered
    lastStatus,   \* status of the last /started response (0: none yet)
    exitCode,     \* exit status of the process (-1: running)
    deleteIssued, \* the orchestrator accepted the delete request
    deleteFailed, \* history: a delete request failed (or the client could not be configured)
    persistCount, \* history: number of completed successful writes
    failed,       \* history: kind of the first failure of a Renewing step
    fileAtFail,   \* history: the file's content when a fetch failed (NoSnapshot: none did)
    armedAt       \* history: instant at which the ticker was last armed

vars == <<variant, daemon, legacyTimer, override, now, pc, ret, cycle, jwt, file,
          started, remain, intv, tickerAt, tickerPeriod, tickC, server, probes, lastStatus,
          exitCode, deleteIssued, deleteFailed, persistCount, failed, fileAtFail, armedAt>>

config == <<variant, daemon, legacyTimer, override>>
ticker == <<tickerAt, tickerPeriod, tickC>>
probe == <<probes, lastStatus>>

(* ---------------------------- the scheduler ---------------------------- *)

\* the override as a duration: the self-deletion variant holds whole seconds
OverrideDuration(v, o) == IF v = "selfdel" THEN o * Second ELSE o

\* time.Duration(float64(remaining) * 0.8)
MaxAllowed(remaining) == TruncDiv(remaining * 8, 10)

\* mutant: the 80% cap is left out
GetRefreshIntervalDirect_NoCap(o, remaining) ==
    LET proposed == IF o > 0 THEN o ELSE TruncDiv(remaining, 2)
    IN  IF proposed < Second THEN Second ELSE proposed

\* getRefreshInterval of the direct-exit variant
GetRefreshIntervalDirect(o, remaining) ==
    LET maxAllowed == MaxAllowed(remaining)
        proposed == IF o > 0 THEN o ELSE TruncDiv(remaining, 2)
        capped == IF proposed > maxAllowed THEN maxAllowed ELSE proposed
    IN  IF capped < Second THEN Second ELSE capped

\* getRefreshInterval of the self-deletion variant
GetRefreshIntervalSelfDel(o, remaining) ==
    IF o # 0 THEN o * Second ELSE TruncDiv(remaining, 2) + Second

getRefreshInterval(v, o, remaining) ==
    IF v = "direct" THEN GetRefreshIntervalDirect(o, remaining)
    ELSE GetRefreshIntervalSelfDel(o, remaining)

(* ------------------------------ the state ------------------------------ *)

Overrides == (-1)..MaxOverride
Lifetimes == (-MaxSkew)..MaxLifetime

Init ==
    /\ variant \in Variants
    /\ daemon \in BOOLEAN
    /\ (variant = "selfdel" => daemon)
    /\ legacyTimer \in BOOLEAN
    /\ override \in Overrides
    /\ now = 0
    /\ pc = "main"
    /\ ret = "none"
    /\ cycle = 0
    /\ jwt = Nil
    /\ file = Nil
    /\ started = FALSE
    /\ remain = 0
    /\ intv = 0
    /\ tickerAt = 0
    /\ tickerPeriod = 0
    /\ tickC = FALSE
    /\ server = "off"
    /\ probes = 0
    /\ lastStatus = 0
    /\ exitCode = -1
    /\ deleteIssued = FALSE
    /\ deleteFailed = FALSE
    /\ persistCount = 0
    /\ failed = "none"
    /\ fileAtFail = NoSnapshot
    /\ armedAt = 0

Alive == exitCode = -1

\* os.Exit(code): logrus.Fatal exits 1, an unrecovered panic exits 2
Exit(code) ==
    /\ pc' = "exited"
    /\ exitCode' = code
    /\ server' = "off"

\* d ticks pass: the clock advances and a running ticker ticks into ticker.C
\* (capacity 1: further ticks are dropped)
Elapse(d) ==
    /\ now' = now + d
    /\ IF tickerPeriod > 0 /\ tickerAt <= now + d
       THEN /\ tickC' = TRUE
            /\ tickerAt' = tickerAt + tickerPeriod * (((now + d - tickerAt) \div tickerPeriod) + 1)
       ELSE UNCHANGED <<tickC, tickerAt>>

\* history: the first failure of a Renewing step, and the file as a failed fetch found it
NoteFailure(kind) ==
    /\ failed' = IF failed = "none" THEN kind ELSE failed
    /\ fileAtFail' = IF kind = "write" THEN fileAtFail ELSE file

\* the ticker after time.NewTicker(d) / ticker.Reset(d) at instant t.  With the
\* pre-1.23 timer channels a tick already in ticker.C stays there.
ArmTicker(t, d, stale) ==
    /\ tickerAt' = t + d
    /\ tickerPeriod' = d
    /\ tickC' = (legacyTimer /\ stale)
    /\ armedAt' = t

(* ------------------------------- main ---------------------------------- *)

\* mutant: main starts the health server in one-shot mode too
Main_AlwaysServes ==
    /\ pc = "main" /\ Alive
    /\ pc' = "fetch"
    /\ cycle' = 1
    /\ server' = "up"
    /\ UNCHANGED <<config, now, ret, jwt, file, started, remain, intv, ticker, armedAt,
                   probe, exitCode, deleteIssued, deleteFailed,
                   persistCount, failed, fileAtFail>>

\* main: kong.Parse has filled the configuration; in daemon mode run is started as
\* a goroutine and the health server listens, in one-shot mode main fetches itself
Main ==
    /\ pc = "main" /\ Alive
    /\ pc' = "fetch"
    /\ cycle' = 1
    /\ server' = IF daemon THEN "up" ELSE "off"
    /\ UNCHANGED <<config, now, ret, jwt, file, started, remain, intv, ticker, armedAt,
                   probe, exitCode, deleteIssued, deleteFailed,
                   persistCount, failed, fileAtFail>>

(* --------------------------- fetchJWTSVID ------------------------------ *)

\* whether fetchJWTSVID of variant v passes the token it received to
\* jwtsvid.ParseAndValidate (signature against the source's bundles, audience) before
\* it returns the credential: the self-deletion variant does, the direct-exit variant
\* returns what jwtSource.FetchJWTSVID gave it
Validates(v) == v = "selfdel"

\* latency of a fetch that succeeds: the direct-exit variant cancels at FetchTimeout
OkLatencies == 0..Min(MaxFetchTicks, FetchTimeout - 1)
\* latency of a fetch that fails: a fetch of the direct-exit variant that is not
\* answered fails at FetchTimeout; the self-deletion variant has no timeout
FailLatencies == IF variant = "direct" THEN OkLatencies \cup {FetchTimeout}
                 ELSE 0..MaxFetchTicks
\* what makes fetchJWTSVID return an error
FetchFailures == IF variant = "direct" THEN {"fetch"} ELSE {"fetch", "validate"}

\* escalation after a failed Renewing step: logrus.Fatal in the direct-exit variant,
\* deleteOwnPod in the self-deletion variant (run goes on at `back` when it returns)
Escalate(back) ==
    IF variant = "direct"
    THEN Exit(1) /\ UNCHANGED ret
    ELSE pc' = "delete" /\ ret' = back /\ UNCHANGED <<exitCode, server>>

\* the renewal loop's tail after a successful cycle: compute the interval from the
\* new credential and ticker.Reset it (Reset panics on a non-positive duration)
ResetTicker(svid, t, stale) ==
    /\ remain' = svid.expiry - t
    /\ intv' = getRefreshInterval(variant, override, svid.expiry - t)
    /\ IF getRefreshInterval(variant, override, svid.expiry - t) <= 0
       THEN Exit(2) /\ UNCHANGED <<tickerAt, tickerPeriod, armedAt>> /\ tickC' = stale
       ELSE /\ ArmTicker(t, getRefreshInterval(variant, override, svid.expiry - t), stale)
            /\ pc' = "wait"
            /\ UNCHANGED <<exitCode, server>>

\* fetchJWTSVID returns a credential after d ticks.  In the first cycle, and in every
\* cycle of the direct-exit variant, the write follows; the loop of the self-deletion
\* variant goes straight to getRefreshInterval and ticker.Reset.
FetchOK ==
    /\ pc = "fetch" /\ Alive
    /\ \E d \in OkLatencies, life \in Lifetimes :
         LET svid == [tok |-> cycle, expiry |-> now + d + life, life |-> life,
                      validated |-> Validates(variant)]
             stale == tickC \/ (tickerPeriod > 0 /\ tickerAt <= now + d)
         IN  /\ jwt' = svid
             /\ IF variant = "selfdel" /\ cycle > 1
                THEN now' = now + d /\ ResetTicker(svid, now + d, stale)
                ELSE /\ Elapse(d)
                     /\ pc' = "write"
                     /\ UNCHANGED <<remain, intv, tickerPeriod, armedAt, exitCode, server>>
    /\ UNCHANGED <<config, ret, cycle, file, started, probe, deleteIssued, deleteFailed,
                   persistCount, failed, fileAtFail>>

\* mutant: a failed fetch takes the readiness flag back
FetchFail_ClearsFlag ==
    /\ pc = "fetch" /\ Alive
    /\ \E d \in FailLatencies, kind \in FetchFailures :
         /\ Elapse(d)
         /\ NoteFailure(kind)
    /\ jwt' = Nil
    /\ started' = FALSE
    /\ Escalate(IF cycle = 1 THEN "write" ELSE "return")
    /\ UNCHANGED <<config, cycle, file, remain, intv, tickerPeriod, armedAt,
                   probe, deleteIssued, deleteFailed, persistCount>>

\* fetchJWTSVID returns an error after d ticks (agent unreachable, request rejected,
\* timeout, or - self-deletion variant - ParseAndValidate failed)
FetchFail ==
    /\ pc = "fetch" /\ Alive
    /\ \E d \in FailLatencies, kind \in FetchFailures :
         /\ Elapse(d)
         /\ NoteFailure(kind)
    /\ jwt' = Nil
    /\ Escalate(IF cycle = 1 THEN "write" ELSE "return")
    /\ UNCHANGED <<config, cycle, file, started, remain, intv, tickerPeriod, armedAt,
                   probe, deleteIssued, deleteFailed, persistCount>>

\* the case of FetchFail that needs no answer of the agent: the deadline of
\* context.WithTimeout passes and FetchJWTSVID returns the context's error.  The
\* self-deletion variant fetches with context.Background() and has no such step.
FetchTimesOut ==
    /\ pc = "fetch" /\ Alive
    /\ variant = "direct"
    /\ Elapse(FetchTimeout)
    /\ NoteFailure("fetch")
    /\ jwt' = Nil
    /\ Escalate(IF cycle = 1 THEN "write" ELSE "return")
    /\ UNCHANGED <<config, cycle, file, started, remain, intv, tickerPeriod, armedAt,
                   probe, deleteIssued, deleteFailed, persistCount>>

(* --------------------------- writeJWTSVID ------------------------------ *)

\* mutant: writeJWTSVID(nil) writes an empty file and returns
WriteNil_WritesEmpty ==
    /\ pc = "write" /\ Alive /\ jwt = Nil
    /\ file' = Truncated
    /\ pc' = "store"
    /\ UNCHANGED <<config, now, ret, cycle, jwt, started, remain, intv, ticker, armedAt,
                   server, probe, exitCode, deleteIssued, deleteFailed,
                   persistCount, failed, fileAtFail>>

\* writeJWTSVID(nil) - the self-deletion run after a failed first fetch and a
\* returned deleteOwnPod: jwt.Marshal() dereferences the nil pointer before
\* os.WriteFile is called, and the unrecovered panic ends the process
WriteNil ==
    /\ pc = "write" /\ Alive /\ jwt = Nil
    /\ Exit(2)
    /\ UNCHANGED <<config, now, ret, cycle, jwt, file, started, remain, intv, ticker,
                   armedAt, probe, deleteIssued, deleteFailed,
                   persistCount, failed, fileAtFail>>

\* os.WriteFile cannot open the file (permissions, invalid path): nothing is written
WriteOpenFails ==
    /\ pc = "write" /\ Alive /\ jwt # Nil
    /\ NoteFailure("write")
    /\ Escalate("store")
    /\ UNCHANGED <<config, now, cycle, jwt, file, started, remain, intv, ticker,
                   armedAt, probe, deleteIssued, deleteFailed, persistCount>>

\* os.WriteFile opens the file with O_TRUNC: the previous content is gone
WriteOpens ==
    /\ pc = "write" /\ Alive /\ jwt # Nil
    /\ file' = Truncated
    /\ pc' = "writing"
    /\ UNCHANGED <<config, now, ret, cycle, jwt, started, remain, intv, ticker, armedAt,
                   server, probe, exitCode, deleteIssued, deleteFailed,
                   persistCount, failed, fileAtFail>>

\* os.WriteFile fails after the truncation (disk full, I/O error)
WriteDataFails ==
    /\ pc = "writing" /\ Alive
    /\ NoteFailure("write")
    /\ Escalate("store")
    /\ UNCHANGED <<config, now, cycle, jwt, file, started, remain, intv, ticker,
                   armedAt, probe, deleteIssued, deleteFailed, persistCount>>

\* os.WriteFile completes: the file holds jwt.Marshal().  One-shot mode then returns
\* from main (exit status 0); the first daemon cycle goes on to set the flag; a later
\* cycle of the direct-exit loop computes the interval and resets the ticker.
WriteCompletes ==
    /\ pc = "writing" /\ Alive
    /\ file' = jwt
    /\ persistCount' = persistCount + 1
    /\ IF ~daemon
       THEN Exit(0) /\ UNCHANGED <<remain, intv, ticker, armedAt>>
       ELSE IF cycle = 1
            THEN /\ pc' = "store"
                 /\ UNCHANGED <<remain, intv, ticker, armedAt, exitCode, server>>
            ELSE ResetTicker(jwt, now, tickC)
    /\ UNCHANGED <<config, now, ret, cycle, jwt, started, probe, deleteIssued, deleteFailed,
                   failed, fileAtFail>>

(* ------------------------------- run ----------------------------------- *)

\* run after the first cycle: set the readiness flag, compute the interval and start
\* the ticker (time.NewTicker panics on a non-positive duration).  The self-deletion
\* run also arrives here when deleteOwnPod returned after a failed first write.
RunStart ==
    /\ pc = "store" /\ Alive
    /\ started' = TRUE
    /\ ResetTicker(jwt, now, FALSE)
    /\ UNCHANGED <<config, now, ret, cycle, jwt, file, probe, deleteIssued, deleteFailed,
                   persistCount, failed, fileAtFail>>

\* case <-ticker.C: a waiting tick is taken at once, otherwise run sleeps until the
\* ticker's next tick; the next fetch starts
\* mutant: a tick starts the next cycle although the previous one is still fetching
\* or writing (as if every tick ran its cycle in a goroutine of its own)
TickerFire_Overlaps ==
    /\ pc \in {"wait", "fetch", "write", "writing"} /\ Alive
    /\ cycle < MaxCycles
    /\ IF tickC
       THEN UNCHANGED <<now, tickerAt>>
       ELSE now' = Max(now, tickerAt) /\ tickerAt' = Max(now, tickerAt) + tickerPeriod
    /\ tickC' = FALSE
    /\ pc' = "fetch"
    /\ cycle' = cycle + 1
    /\ UNCHANGED <<config, ret, jwt, file, started, remain, intv, tickerPeriod, armedAt,
                   server, probe, exitCode, deleteIssued, deleteFailed,
                   persistCount, failed, fileAtFail>>

TickerFire ==
    /\ pc = "wait" /\ Alive
    /\ cycle < MaxCycles
    /\ IF tickC
       THEN UNCHANGED <<now, tickerAt>>
       ELSE now' = tickerAt /\ tickerAt' = tickerAt + tickerPeriod
    /\ tickC' = FALSE
    /\ pc' = "fetch"
    /\ cycle' = cycle + 1
    /\ UNCHANGED <<config, ret, jwt, file, started, remain, intv, tickerPeriod, armedAt,
                   server, probe, exitCode, deleteIssued, deleteFailed,
                   persistCount, failed, fileAtFail>>

(* ---------------------------- deleteOwnPod ----------------------------- *)

\* rest.InClusterConfig, kubernetes.NewForConfig or the Delete request fails:
\* logrus.Fatalf ends the process
\* mutant: a failed delete request is only logged and deleteOwnPod goes on to its sleep
DeleteFails_GoesOn ==
    /\ pc = "delete" /\ Alive
    /\ deleteFailed' = TRUE
    /\ pc' = "pause"
    /\ UNCHANGED <<config, now, ret, cycle, jwt, file, started, remain, intv, ticker,
                   armedAt, server, probe, exitCode, deleteIssued, persistCount, failed,
                   fileAtFail>>

DeleteFails ==
    /\ pc = "delete" /\ Alive
    /\ Exit(1)
    /\ deleteFailed' = TRUE
    /\ UNCHANGED <<config, now, ret, cycle, jwt, file, started, remain, intv, ticker,
                   armedAt, probe, deleteIssued, persistCount, failed, fileAtFail>>

\* the Delete request is accepted; deleteOwnPod starts its time.Sleep
DeleteAccepted ==
    /\ pc = "delete" /\ Alive
    /\ deleteIssued' = TRUE
    /\ pc' = "pause"
    /\ UNCHANGED <<config, now, ret, cycle, jwt, file, started, remain, intv, ticker,
                   armedAt, server, probe, exitCode, persistCount, failed, fileAtFail,
                   deleteFailed>>

\* time.Sleep(60 * time.Second) ends and deleteOwnPod returns to run: to the write of
\* the first cycle, to the flag store of the first cycle, or to the loop's return
PauseElapsed ==
    /\ pc = "pause" /\ Alive
    /\ Elapse(PauseTicks)
    /\ pc' = IF ret = "return" THEN "returned" ELSE ret
    /\ UNCHANGED <<config, ret, cycle, jwt, file, started, remain, intv, tickerPeriod,
                   armedAt, server, probe, exitCode, deleteIssued, deleteFailed, persistCount,
                   failed, fileAtFail>>

\* the orchestrator carries out the accepted deletion and kills the process
PodKilled ==
    /\ deleteIssued /\ Alive
    /\ Exit(137)
    /\ UNCHANGED <<config, now, ret, cycle, jwt, file, started, remain, intv, ticker,
                   armedAt, probe, deleteIssued, deleteFailed,
                   persistCount, failed, fileAtFail>>

(* -------------------------- startHealthServer -------------------------- *)

\* what the /started handler can read from the flag: atomic.LoadInt32 reads the
\* stored value; the plain read of the self-deletion variant races with run's plain
\* write and may still see the value from before it
FlagReads == IF variant = "direct" THEN {started} ELSE {started, FALSE}

\* the /started handler answers one request
HealthRequest ==
    /\ server = "up" /\ Alive
    /\ probes < MaxProbes
    /\ probes' = probes + 1
    /\ \E seen \in FlagReads : lastStatus' = IF seen THEN 200 ELSE 503
    /\ UNCHANGED <<config, now, pc, ret, cycle, jwt, file, started, remain, intv, ticker,
                   armedAt, server, exitCode, deleteIssued, deleteFailed,
                   persistCount, failed, fileAtFail>>

\* ListenAndServe returns (the port cannot be bound, the listener fails): the
\* direct-exit variant logs Fatal, the self-deletion variant returns from main
HealthServerStops ==
    /\ server = "up" /\ Alive
    /\ Exit(IF variant = "direct" THEN 1 ELSE 0)
    /\ UNCHANGED <<config, now, ret, cycle, jwt, file, started, remain, intv, ticker,
                   armedAt, probe, deleteIssued, deleteFailed,
                   persistCount, failed, fileAtFail>>

(* --------------------------- specification ----------------------------- *)

Next ==
    \/ Main
    \/ FetchOK
    \/ FetchFail
    \/ WriteNil
    \/ WriteOpenFails
    \/ WriteOpens
    \/ WriteDataFails
    \/ WriteCompletes
    \/ RunStart
    \/ TickerFire
    \/ DeleteFails
    \/ DeleteAccepted
    \/ PauseElapsed
    \/ PodKilled
    \/ HealthRequest
    \/ HealthServerStops

Spec == Init /\ [][Next]_vars

\* the steps that do not wait for a remote party: the process's own statements, the
\* local file system calls, the ticker and the sleep
LocalStep ==
    \/ Main
    \/ WriteNil
    \/ WriteOpenFails \/ WriteOpens
    \/ WriteDataFails \/ WriteCompletes
    \/ RunStart
    \/ TickerFire
    \/ PauseElapsed

\* the same program under the scheduling the code justifies: local steps are taken,
\* and a pending fetch of the direct-exit variant is cancelled by its deadline
\* whatever the agent does.  Nothing is assumed about the identity agent, the
\* orchestrator or the health server's clients.
LiveSpec == Spec /\ WF_vars(LocalStep) /\ WF_vars(FetchTimesOut)

(* ------------------- the scheduler as a pure function ------------------ *)

\* the inputs of getRefreshInterval: every remaining lifetime from MaxExpiredS seconds
\* in the past to MaxRemainingS seconds ahead, and every override up to MaxOverrideS
\* seconds (a time.Duration in "direct", whole seconds in "selfdel")
SchedRemaining == (-(MaxExpiredS * Second))..(MaxRemainingS * Second)
SchedOverrides(v) == IF v = "direct" THEN (-Second)..(MaxOverrideS * Second)
                     ELSE (-1)..MaxOverrideS

SchedInit ==
    /\ variant \in Variants
    /\ daemon = TRUE
    /\ legacyTimer = FALSE
    /\ override \in SchedOverrides(variant)
    /\ remain \in SchedRemaining
    /\ now = 0
    /\ pc = "calc"
    /\ ret = "none"
    /\ cycle = 0
    /\ jwt = Nil
    /\ file = Nil
    /\ started = FALSE
    /\ intv = 0
    /\ tickerAt = 0
    /\ tickerPeriod = 0
    /\ tickC = FALSE
    /\ server = "off"
    /\ probes = 0
    /\ lastStatus = 0
    /\ exitCode = -1
    /\ deleteIssued = FALSE
    /\ deleteFailed = FALSE
    /\ persistCount = 0
    /\ failed = "none"
    /\ fileAtFail = NoSnapshot
    /\ armedAt = 0

\* one call of getRefreshInterval on a credential with `remain` ticks left
SchedCompute ==
    /\ pc = "calc"
    /\ intv' = getRefreshInterval(variant, override, remain)
    /\ pc' = "computed"
    /\ UNCHANGED <<config, now, ret, cycle, jwt, file, started, remain, ticker, armedAt,
                   server, probe, exitCode, deleteIssued, deleteFailed,
                   persistCount, failed, fileAtFail>>

SchedNext == SchedCompute

SchedSpec == SchedInit /\ [][SchedNext]_vars

(* ------------------------------- claims -------------------------------- *)

\* the file holds a complete credential
HoldsCredential == file.tok > 0

\* C1 (as claimed): in a daemon run without any failure the file never holds an
\* expired credential.  Stated for credentials that had at least two seconds left
\* when they were returned, so that neither an expired-on-arrival credential nor the
\* one-second floor is what breaks it.
C1_FileNeverExpired ==
    (daemon /\ Alive /\ failed = "none" /\ HoldsCredential /\ file.life >= 2 * Second)
        => file.expiry > now

\* C2 (as claimed): in daemon mode the flag is ready if and only if a cycle in which
\* the fetch and the write both succeeded has completed (the first cycle completes
\* with the flag store that follows the write)
C2_ReadyIffPersisted ==
    (daemon /\ Alive) =>
        /\ started => persistCount > 0
        /\ (persistCount > 0 /\ pc # "store") => started

\* C2 holds of the direct-exit variant
C2_DirectExit == variant = "direct" => C2_ReadyIffPersisted

\* C3: the readiness flag starts not ready and never goes from ready to not ready
C3_ReadinessMonotonic == (started = FALSE) /\ [][started => started']_vars

\* C3 witness: the flag is ready, a later cycle has failed and a health request was
\* answered while the process is still alive
C3_Witness ==
    started /\ Alive /\ cycle >= 2 /\ failed # "none" /\ lastStatus = 200

\* C4 (as claimed): every /started response is 200 exactly when the flag is ready,
\* and a 200 response is preceded by a completed successful write
C4_HealthReflectsPersist ==
    [][probes' # probes =>
          /\ lastStatus' = (IF started THEN 200 ELSE 503)
          /\ (lastStatus' = 200 => persistCount > 0)]_vars

\* C4 holds of the direct-exit variant
C4_DirectExit ==
    [][(variant = "direct" /\ probes' # probes) =>
          /\ lastStatus' = (IF started THEN 200 ELSE 503)
          /\ (lastStatus' = 200 => persistCount > 0)]_vars

\* ten times the value the spec's scheduler rule gives: max(min(proposed, 0.8 *
\* remaining), 1 s), with ten times the proposal as argument
Spec10(proposed10, remaining) == Max(Min(proposed10, 8 * remaining), 10 * Second)
\* d is that value, cut to whole ticks
IsWholeTicksOf(d, value10) == 10 * d <= value10 /\ value10 < 10 * (d + 1)

C6_OverrideClamped ==
    (pc = "computed" /\ override > 0) =>
        IsWholeTicksOf(intv, Spec10(10 * OverrideDuration(variant, override), remain))

\* C6 holds of the direct-exit variant
C6_DirectExit == variant = "direct" => C6_OverrideClamped

\* C7 (as claimed): without override and with remaining > 0 the interval is
\* max(min(remaining / 2, 0.8 * remaining), 1 s)
C7_HalfOfRemaining ==
    (pc = "computed" /\ override = 0 /\ remain > 0) =>
        IsWholeTicksOf(intv, Spec10(5 * remain, remain))

\* C7 holds of the direct-exit variant
C7_DirectExit == variant = "direct" => C7_HalfOfRemaining

\* C8 (as claimed): with remaining <= 0 the interval is exactly one second
C8_ExpiredGivesFloor == (pc = "computed" /\ remain <= 0) => intv = Second

\* C8 holds of the direct-exit variant
C8_DirectExit == variant = "direct" => C8_ExpiredGivesFloor

\* C9 (as claimed): after a failed Renewing step the loop never waits, fetches or
\* writes again, and the file and the flag stay as they are
C9_FailureIsTerminal ==
    [][failed # "none" =>
          /\ pc' \notin {"wait", "fetch", "writing"}
          /\ file' = file
          /\ started' = started]_vars

\* C9 holds of the direct-exit variant
C9_DirectExit ==
    [][(variant = "direct" /\ failed # "none") =>
          /\ pc' \notin {"wait", "fetch", "writing"}
          /\ file' = file
          /\ started' = started]_vars

\* C10: once a fetch has failed the file stays as the failed fetch found it, and the
\* direct-exit variant has exited with status 1
C10_FetchFailureLeavesFile ==
    fileAtFail # NoSnapshot =>
        /\ file = fileAtFail
        /\ variant = "direct" => exitCode = 1

\* C10 witness: the self-deletion run whose first fetch failed has come back from
\* deleteOwnPod and has ended in writeJWTSVID(nil), the file untouched
C10_Witness ==
    /\ variant = "selfdel" /\ failed = "fetch" /\ cycle = 1
    /\ deleteIssued /\ now >= PauseTicks /\ exitCode = 2 /\ file = Nil

\* a cycle has just completed without any failure: the loop waits for the ticker,
\* or the one-shot process has exited with status 0
CycleSucceeded == failed = "none" /\ (pc = "wait" \/ (~daemon /\ exitCode = 0))

\* C11 (as claimed): after every successful cycle the file holds exactly the token
\* of the credential that this cycle's fetch returned
C11_FileHoldsLatest == CycleSucceeded => (file = jwt /\ file.tok = cycle)

\* C11 holds of the direct-exit variant
C11_DirectExit == variant = "direct" => C11_FileHoldsLatest

C12_DeleteBeforePause ==
    [][ /\ (pc' = "pause" => deleteIssued')
        /\ (pc = "pause" /\ now' # now => now' = now + PauseTicks) ]_vars

\* C13: in one-shot mode the process does one fetch+persist step and nothing else: no
\* second cycle, no ticker, no Waiting, no health server, no readiness flag; it is
\* never stuck before its exit, and it exits with status 0 exactly when the fetch
\* and the write both succeeded (the file then holds the fetched credential) and
\* with a non-zero status when either failed
C13_OneShot ==
    ~daemon =>
        /\ pc \in {"main", "fetch", "write", "writing", "exited"}
        /\ cycle <= 1 /\ persistCount <= 1
        /\ tickerPeriod = 0 /\ ~tickC
        /\ server = "off" /\ probes = 0 /\ ~started
        /\ (pc # "exited" => ENABLED Next)
        /\ (pc = "exited" =>
               /\ cycle = 1
               /\ exitCode = IF failed = "none" THEN 0 ELSE 1
               /\ (failed = "none" <=> (persistCount = 1 /\ file = jwt /\ jwt.tok = 1)))

\* a one-shot run whose fetch took some time and that succeeded
C13_Witness ==
    ~daemon /\ pc = "exited" /\ exitCode = 0 /\ persistCount = 1 /\ file.tok = 1 /\ now > 0

\* a one-shot run that failed in the write
C13_FailureReached == ~daemon /\ pc = "exited" /\ exitCode = 1 /\ failed = "write"

\* C14 (as claimed): every fetch attempt eventually returns, in both variants
C14_FetchReturns == (pc = "fetch") ~> (pc # "fetch")

\* C14 holds of the direct-exit variant: its fetch is cancelled after FetchTimeout
C14_DirectExit == (variant = "direct" /\ pc = "fetch") ~> (pc # "fetch")

\* C15: when the delete request fails (or the orchestrator client cannot be
\* configured) the process exits at once with a non-zero status: the step that fails
\* ends the process without letting time pass, the pause is not entered, and from
\* then on no fetch is started, the file and the readiness flag are not touched
C15_DeleteFailureExits ==
    [][ /\ (deleteFailed' /\ ~deleteFailed =>
               /\ pc = "delete" /\ pc' = "exited"
               /\ exitCode' \notin {-1, 0}
               /\ now' = now)
        /\ (deleteFailed =>
               /\ pc = "exited" /\ pc' = "exited" /\ exitCode' = exitCode
               /\ cycle' = cycle /\ file' = file /\ started' = started
               /\ jwt' = jwt /\ now' = now) ]_vars

\* a delete request failed in the escalation of a later cycle, after a first delete
\* request had been accepted and its pause had ended
C15_Witness ==
    deleteFailed /\ exitCode = 1 /\ cycle >= 2 /\ deleteIssued /\ now >= PauseTicks

C16_UnbufferedTimer ==
    [][ ~legacyTimer /\ pc = "wait" /\ pc' = "fetch" => now' = armedAt + intv ]_vars

\* the Renewing step of cycle n is over: its fetch returned credential n and its write
\* completed (the loop of the self-deletion variant has no write), or its write
\* failed and the escalation ran to the end of its pause
CycleOver(n) ==
    /\ jwt.tok = n
    /\ \/ file = jwt
       \/ variant = "selfdel" /\ n > 1 /\ file.tok \in {-1, 1}
       \/ variant = "selfdel" /\ failed = "write" /\ deleteIssued /\ now >= PauseTicks

\* C17: cycles are strictly sequential.  A fetch starts only from main or from Waiting,
\* one cycle at a time, and only when the cycle before it is over; a write starts only
\* from the fetch of its own cycle and no other fetch or write starts before it ends
C17_Sequential ==
    [][ /\ (cycle' # cycle =>
               /\ cycle' = cycle + 1
               /\ pc \in {"main", "wait"} /\ pc' = "fetch"
               /\ (cycle > 0 => CycleOver(cycle)))
        /\ (pc' = "write" /\ pc # "write" => pc \in {"fetch", "pause"} /\ cycle' = cycle)
        /\ (pc' = "writing" /\ pc # "writing" => pc = "write" /\ cycle' = cycle)
        /\ (pc = "writing" /\ file' # file => file' = jwt /\ jwt.tok = cycle) ]_vars

\* the third cycle of the direct-exit loop starts after two completed writes
C17_Witness ==
    variant = "direct" /\ cycle = 3 /\ pc = "fetch" /\ persistCount = 2 /\ file.tok = 2

\* C18 (as claimed): a credential held by the program after a fetch, and a credential
\* in the file, has been validated by the program (signature and audience) after it
\* was received from the agent, in both variants
C18_OnlyValidated ==
    /\ (jwt # Nil => jwt.validated)
    /\ (HoldsCredential => file.validated)

\* C18 holds of the self-deletion variant, whose fetch calls ParseAndValidate
C18_SelfDeletion == variant = "selfdel" => C18_OnlyValidated

\* C19 (as claimed): from the first completed write on, the file holds at every moment
\* the complete token of some fetched credential, never an empty or partly written
\* content, also while a later write is under way and after a later write failed
C19_ReaderSeesWholeToken == persistCount > 0 => HoldsCredential

\* C20 (as claimed): in daemon mode the process lives exactly as long as the health
\* server: once main has started, a health server that is not serving means the process
\* has exited (and with it the renewal loop), and the process is never still running,
\* with the health endpoint reporting ready, after the renewal loop has ended
C20_LifetimeOwnedByServer ==
    daemon =>
        /\ (pc # "main" /\ server = "off" => pc = "exited" /\ ~Alive)
        /\ ~(Alive /\ pc = "returned" /\ server = "up" /\ started)

\* C20 holds of the direct-exit variant
C20_DirectExit == variant = "direct" => C20_LifetimeOwnedByServer

====
